---- MODULE Spec2Model ----
(***************************************************************************)
(* Model of the two command-line scalers of the repository:                *)
(*   tools/scale_config.py  (Generic Scaler, scale_destinations)           *)
(*   tools/scale_frames.py  (Frame Scaler, scale_value / scale_dict)       *)
(* A JSON value is a tagged record; a number is the dyadic rational        *)
(* n / 2^e together with its Python type (int or float), so that the       *)
(* multiplication by 0.5 and Python's round() are computed, not assumed.   *)
(***************************************************************************)
EXTENDS Integers, Sequences, FiniteSets, TLC

VARIABLES script, nargs, infile, pc, data, orig, inHandle, outHandle,
          outfile, stdout, log, status, err, factor, calls

vars == <<script, nargs, infile, pc, data, orig, inHandle, outHandle,
          outfile, stdout, log, status, err, factor, calls>>

-----------------------------------------------------------------------------
(* Bounds of the model *)

MaxWidth == 2
MaxDepth == 2
MaxArgs == 3
MaxCalls == 2

-----------------------------------------------------------------------------
(* JSON values as json.load builds them *)

RECURSIVE Pow2(_)
Pow2(k) == IF k = 0 THEN 1 ELSE 2 * Pow2(k - 1)

RECURSIVE Normalise(_, _, _)
Normalise(ty, n, e) ==
    IF e > 0 /\ n % 2 = 0 THEN Normalise(ty, n \div 2, e - 1)
    ELSE [t |-> ty, n |-> n, e |-> e]

JInt(n) == [t |-> "int", n |-> n, e |-> 0]
JFloat(n, e) == Normalise("float", n, e)
JStr(s) == [t |-> "str", s |-> s]
JBool(b) == [t |-> "bool", b |-> b]
JNull == [t |-> "null"]
JObj(items) == [t |-> "obj", items |-> items]
JList(elems) == [t |-> "list", elems |-> elems]

\* the outcome of a call that raised an exception
Raised == [t |-> "raised"]

\* Python's bool is a subclass of int: isinstance(True, (int, float)) holds
IsIntOrFloat(v) == v.t \in {"int", "float", "bool"}

\* the number a Python int, float or bool stands for in arithmetic
AsNumber(v) == IF v.t = "bool" THEN JInt(IF v.b THEN 1 ELSE 0) ELSE v

\* Python's a * b on numbers: int only when both operands are int
Mul(a, b) ==
    LET x == AsNumber(a)
        y == AsNumber(b)
    IN  Normalise(IF x.t = "int" /\ y.t = "int" THEN "int" ELSE "float",
                  x.n * y.n, x.e + y.e)

\* as Round, but a tie goes up
RoundHalfUp(v) ==
    IF v.e = 0 THEN v.n
    ELSE (2 * v.n + Pow2(v.e)) \div Pow2(v.e + 1)

\* Python 3 round() on a number: nearest integer, ties to the even one
Round(v) ==
    IF v.e = 0 THEN v.n
    ELSE LET q == v.n \div Pow2(v.e)
             r == v.n % Pow2(v.e)
             half == Pow2(v.e - 1)
         IN  IF r < half THEN q
             ELSE IF r > half THEN q + 1
             ELSE IF q % 2 = 0 THEN q ELSE q + 1

\* Python's  sub in key  on strings
Contains(sub, key) ==
    \E i \in 1..(Len(key) - Len(sub) + 1) :
        SubSeq(key, i, i + Len(sub) - 1) = sub

HasKey(obj, key) == \E i \in 1..Len(obj.items) : obj.items[i][1] = key

Get(obj, key) ==
    obj.items[CHOOSE i \in 1..Len(obj.items) : obj.items[i][1] = key][2]

\* obj[key] = value on a key the dict already has: the position is kept
Set(obj, key, value) ==
    [obj EXCEPT !.items = [i \in 1..Len(obj.items) |->
        IF obj.items[i][1] = key THEN <<key, value>> ELSE obj.items[i]]]

\* Python's  key in c : defined on dict (keys), list (elements), str (substring)
SupportsIn(c) == c.t \in {"obj", "list", "str"}

KeyIn(key, c) ==
    IF c.t = "obj" THEN HasKey(c, key)
    ELSE IF c.t = "list" THEN \E i \in 1..Len(c.elems) : c.elems[i] = JStr(key)
    ELSE Contains(key, c.s)

-----------------------------------------------------------------------------
(* tools/scale_config.py *)

KeyMatches(key) == Contains("dest_x", key) \/ Contains("dest_y", key)

RECURSIVE scale_destinations(_, _)

\* as scale_destinations, but lists are returned as they are
scale_destinations_skipping_lists(obj, scale) ==
    IF obj.t = "obj" THEN
        [obj EXCEPT !.items = [i \in 1..Len(obj.items) |->
            LET key == obj.items[i][1]
                value == obj.items[i][2]
            IN  IF IsIntOrFloat(value) /\ KeyMatches(key)
                THEN <<key, Mul(value, scale)>>
                ELSE <<key, scale_destinations(value, scale)>>]]
    ELSE obj

scale_destinations(obj, scale) ==
    IF obj.t = "obj" THEN
        [obj EXCEPT !.items = [i \in 1..Len(obj.items) |->
            LET key == obj.items[i][1]
                value == obj.items[i][2]
            IN  IF IsIntOrFloat(value) /\ KeyMatches(key)
                THEN <<key, Mul(value, scale)>>
                ELSE <<key, scale_destinations(value, scale)>>]]
    ELSE IF obj.t = "list" THEN
        [obj EXCEPT !.elems = [i \in 1..Len(obj.elems) |->
            scale_destinations(obj.elems[i], scale)]]
    ELSE obj

-----------------------------------------------------------------------------
(* tools/scale_frames.py *)

scale_factor == JFloat(1, 1)

\* as ScaledKeys, with one more field name
ScaledKeysAndZ == <<"x", "y", "w", "h", "z">>

ScaledKeys == <<"x", "y", "w", "h">>
SubObjectKeys == <<"frame", "spriteSourceSize", "sourceSize">>

\* as scale_value, but int() is applied without round()
scale_value_truncating(val, fac) ==
    IF IsIntOrFloat(val)
    THEN LET p == Mul(val, fac)
         IN  JInt(IF p.n >= 0 THEN p.n \div Pow2(p.e) ELSE 0 - ((0 - p.n) \div Pow2(p.e)))
    ELSE Raised

scale_value(val, fac) ==
    IF IsIntOrFloat(val) THEN JInt(Round(Mul(val, fac))) ELSE Raised

\* the loop of scale_dict from its i-th key on
RECURSIVE scale_dict_from(_, _, _)
scale_dict_from(data_dict, fac, i) ==
    IF i > Len(ScaledKeys) THEN data_dict
    ELSE IF ~SupportsIn(data_dict) THEN Raised
    ELSE IF ~KeyIn(ScaledKeys[i], data_dict)
         THEN scale_dict_from(data_dict, fac, i + 1)
    ELSE IF data_dict.t # "obj" THEN Raised
    ELSE LET v == scale_value(Get(data_dict, ScaledKeys[i]), fac)
         IN  IF v = Raised THEN Raised
             ELSE scale_dict_from(Set(data_dict, ScaledKeys[i], v), fac, i + 1)

\* as scale_dict, but a missing x is defaulted to 0 and scaled
scale_dict_defaulting(data_dict, fac) ==
    scale_dict_from(IF data_dict.t = "obj" /\ ~HasKey(data_dict, "x")
                    THEN JObj(Append(data_dict.items, <<"x", JInt(0)>>))
                    ELSE data_dict, fac, 1)

scale_dict(data_dict, fac) == scale_dict_from(data_dict, fac, 1)

\* the three if-statements of the loop body of main, from the i-th on
RECURSIVE ScaleFrameFrom(_, _, _)
ScaleFrameFrom(frame, fac, i) ==
    IF i > Len(SubObjectKeys) THEN frame
    ELSE IF ~SupportsIn(frame) THEN Raised
    ELSE IF ~KeyIn(SubObjectKeys[i], frame)
         THEN ScaleFrameFrom(frame, fac, i + 1)
    ELSE IF frame.t # "obj" THEN Raised
    ELSE LET s == scale_dict(Get(frame, SubObjectKeys[i]), fac)
         IN  IF s = Raised THEN Raised
             ELSE ScaleFrameFrom(Set(frame, SubObjectKeys[i], s), fac, i + 1)

\* the loop  for frame_key, frame in data.get("frames", {}).items()
ScaleFrames(doc, fac) ==
    IF doc.t # "obj" THEN Raised
    ELSE IF ~HasKey(doc, "frames") THEN doc
    ELSE LET frames == Get(doc, "frames")
         IN  IF frames.t # "obj" THEN Raised
             ELSE LET scaled == [i \in 1..Len(frames.items) |->
                          <<frames.items[i][1],
                            ScaleFrameFrom(frames.items[i][2], fac, 1)>>]
                  IN  IF \E i \in 1..Len(scaled) : scaled[i][2] = Raised
                      THEN Raised
                      ELSE Set(doc, "frames", JObj(scaled))

-----------------------------------------------------------------------------
(* The JSON documents the runs are given *)

\* objects of at most w members with distinct keys, in every key order
ObjsOver(keys, vals, w) ==
    UNION { { JObj(s) : s \in { f \in [1..n -> keys \X vals] :
                  \A i, j \in 1..n : i < j => f[i][1] # f[j][1] } } : n \in 0..w }

ListsOver(vals, w) == UNION { { JList(s) : s \in [1..n -> vals] } : n \in 0..w }

Scalars == {JNull, JBool(TRUE), JInt(3), JFloat(5, 1), JStr("s")}

ConfigKeys == {"dest_x", "my_dest_y2", "dest"}

FlatDocs == ObjsOver(ConfigKeys, Scalars, MaxWidth) \cup ListsOver(Scalars, MaxWidth)

Seeds == Scalars \cup ObjsOver(ConfigKeys, Scalars, 1) \cup ListsOver(Scalars, 1)

\* one more level of nesting around each value of S
Wrap(S) ==
    { JObj(<< <<k, v>> >>) : k \in ConfigKeys, v \in S }
    \cup { JList(<<v>>) : v \in S }
    \cup { JObj(<< <<"dest_y", JInt(-7)>>, <<"dest_x_group", v>> >>) : v \in S }

RECURSIVE Nested(_)
Nested(d) == IF d = 0 THEN Seeds ELSE Nested(d - 1) \cup Wrap(Nested(d - 1))

ConfigDocs == FlatDocs \cup Nested(MaxDepth)

\* sprite-atlas documents
FieldVals == {JInt(10), JInt(11), JInt(13), JInt(-3), JFloat(5, 1), JFloat(7, 1),
              JBool(TRUE), JStr("s")}

Rect(x, y, w, h) ==
    JObj(<< <<"x", x>>, <<"y", y>>, <<"w", w>>, <<"h", h>> >>)

SubObjs ==
    ObjsOver({"x", "y", "w", "h", "z"}, FieldVals, 1)
    \cup ObjsOver({"x", "h", "z"}, {JInt(11), JInt(13), JFloat(5, 1)}, MaxWidth)
    \cup { Rect(JInt(10), JInt(20), JInt(30), JInt(40)),
           Rect(JInt(11), JInt(13), JInt(-3), JFloat(5, 1)),
           JObj(<< <<"h", JInt(11)>>, <<"name", JStr("x")>>, <<"x", JInt(13)>> >>),
           JList(<<>>), JList(<<JStr("x")>>), JList(<<JStr("z"), JInt(11)>>),
           JStr("why"), JStr("abc"), JInt(1), JNull }

FullFrame ==
    JObj(<< <<"frame", Rect(JInt(10), JInt(20), JInt(30), JInt(40))>>,
            <<"rotated", JBool(FALSE)>>,
            <<"x", JInt(11)>>,
            <<"spriteSourceSize", Rect(JInt(0), JInt(1), JInt(11), JInt(13))>>,
            <<"sourceSize", JObj(<< <<"w", JInt(31)>>, <<"h", JInt(41)>> >>)>> >>)

NoSpriteFrame ==
    JObj(<< <<"sourceSize", JObj(<< <<"h", JInt(-5)>>, <<"w", JFloat(7, 1)>> >>)>>,
            <<"frame", JObj(<< <<"x", JInt(11)>>, <<"pivot", JInt(11)>> >>)>> >>)

FrameEntries ==
    { JObj(<< <<k, s>> >>) :
        k \in {"frame", "spriteSourceSize", "sourceSize", "pivot"}, s \in SubObjs }
    \cup { FullFrame, NoSpriteFrame, JObj(<<>>),
           JList(<<>>), JList(<<JStr("frame")>>), JStr("frame1"), JStr("a"),
           JInt(1), JNull }

SizeObj == JObj(<< <<"w", JInt(11)>>, <<"h", JInt(13)>> >>)

AtlasDocs ==
    { JObj(<< <<"frames", JObj(<< <<"a.png", e>> >>)>> >>) : e \in FrameEntries }
    \cup { JObj(<< <<"size", SizeObj>>,
                   <<"frames", JObj(<< <<"a.png", e1>>, <<"b.png", e2>> >>)>>,
                   <<"x", JInt(11)>> >>) :
             e1 \in {FullFrame, NoSpriteFrame}, e2 \in {FullFrame, NoSpriteFrame, JObj(<<>>), JInt(1)} }
    \cup { JObj(<< <<"frames", f>>, <<"size", SizeObj>> >>) :
             f \in {JObj(<<>>), JList(<<>>), JList(<<FullFrame>>), JNull, JStr("frames")} }
    \cup { JObj(<< <<"size", SizeObj>>, <<"frame", e>>, <<"sprites", JObj(<< <<"a.png", e>> >>)>> >>) :
             e \in {FullFrame, NoSpriteFrame, Rect(JInt(11), JInt(13), JInt(-3), JInt(10))} }
    \cup { JObj(<< <<"Frames", JObj(<< <<"a.png", FullFrame>> >>)>> >>),
           JList(<< JObj(<< <<"frames", JObj(<< <<"a.png", FullFrame>> >>)>> >>) >>) }

InputDocs == ConfigDocs \cup AtlasDocs

\* a file whose text json.load rejects
Malformed == [t |-> "malformed"]

Factors == {JFloat(1, 1), JFloat(1, 2), JFloat(3, 1), JInt(2), JInt(-1)}

-----------------------------------------------------------------------------
(* One run of a script *)

Scripts == {"scale_config", "scale_frames"}

None == [t |-> "none"]
Untouched == [t |-> "untouched"]
Truncated == [t |-> "truncated"]
Partial == [t |-> "partial"]
Written(indent, doc) == [t |-> "written", indent |-> indent, doc |-> doc]

Usage(s) ==
    IF s = "scale_config" THEN "Usage: python scale_config.py input.json output.json"
    ELSE "Usage: python scale_frames.py input.json output.json"

SuccessMessage(s) ==
    IF s = "scale_config"
    THEN "Scaled all dest_x and dest_y values by 50% and saved to output.json"
    ELSE "Done. Your frames have been scaled."

Indent(s) == IF s = "scale_config" THEN 3 ELSE 4

\* as WrongArgc, but only too few arguments are rejected
WrongArgcTooFew(argc) == argc < 3

\* len(sys.argv) != 3
WrongArgc(argc) == argc # 3

\* as NextStep, but the output file is opened before the transformation
NextStepOpeningEarly(p) ==
    CASE p = "start" -> "open_in"
      [] p = "open_in" -> "load"
      [] p = "load" -> "close_in"
      [] p = "close_in" -> "open_out"
      [] p = "open_out" -> "transform"
      [] p = "transform" -> "dump"
      [] p = "dump" -> "close_out"
      [] p = "close_out" -> "print"
      [] p = "print" -> "done"

\* the statements of main in program order
NextStep(p) ==
    CASE p = "start" -> "open_in"
      [] p = "open_in" -> "load"
      [] p = "load" -> "close_in"
      [] p = "close_in" -> "transform"
      [] p = "transform" -> "open_out"
      [] p = "open_out" -> "dump"
      [] p = "dump" -> "close_out"
      [] p = "close_out" -> "print"
      [] p = "print" -> "done"

\* as Transformed, but with the disabled block that scales data["size"] enabled
TransformedWithSize(s, doc) ==
    IF s = "scale_config" THEN scale_destinations(doc, JFloat(1, 1))
    ELSE LET r == ScaleFrames(doc, scale_factor)
         IN  IF r = Raised \/ ~HasKey(r, "size") THEN r
             ELSE LET z == scale_dict(Get(r, "size"), scale_factor)
                  IN  IF z = Raised THEN Raised ELSE Set(r, "size", z)

\* the transformation each main applies to the loaded document
Transformed(s, doc) ==
    IF s = "scale_config" THEN scale_destinations(doc, JFloat(1, 1))
    ELSE ScaleFrames(doc, scale_factor)

Init ==
    /\ script \in Scripts
    /\ nargs \in 0..MaxArgs
    /\ infile \in InputDocs \cup {Malformed}
    /\ pc = "start"
    /\ data = None
    /\ orig = None
    /\ inHandle = "never"
    /\ outHandle = "never"
    /\ outfile = Untouched
    /\ stdout = <<>>
    /\ log = <<>>
    /\ status = "running"
    /\ err = "none"
    /\ factor = JFloat(1, 1)
    /\ calls = 0

\* an uncaught exception: traceback, exit status 1
Crash(why) ==
    /\ pc' = "exited"
    /\ status' = "exit1"
    /\ err' = why

CheckArgs ==
    /\ pc = "start"
    /\ IF WrongArgc(nargs + 1)
       THEN /\ stdout' = Append(stdout, Usage(script))
            /\ Crash("usage")
       ELSE /\ pc' = NextStep(pc)
            /\ UNCHANGED <<stdout, status, err>>
    /\ UNCHANGED <<script, nargs, infile, data, orig, inHandle, outHandle,
                   outfile, log, factor, calls>>

OpenInput ==
    /\ pc = "open_in"
    /\ \E readable \in BOOLEAN :
        IF readable
        THEN /\ inHandle' = "open"
             /\ log' = Append(log, "open_in")
             /\ pc' = NextStep(pc)
             /\ UNCHANGED <<status, err>>
        ELSE /\ Crash("open_input")
             /\ UNCHANGED <<inHandle, log>>
    /\ UNCHANGED <<script, nargs, infile, data, orig, outHandle, outfile,
                   stdout, factor, calls>>

LoadJson ==
    /\ pc = "load"
    /\ IF infile = Malformed
       THEN /\ Crash("parse")
            /\ inHandle' = "closed"
            /\ UNCHANGED <<data, orig, log>>
       ELSE /\ data' = infile
            /\ orig' = infile
            /\ log' = Append(log, "load")
            /\ pc' = NextStep(pc)
            /\ UNCHANGED <<inHandle, status, err>>
    /\ UNCHANGED <<script, nargs, infile, outHandle, outfile, stdout, factor, calls>>

CloseInput ==
    /\ pc = "close_in"
    /\ inHandle' = "closed"
    /\ log' = Append(log, "close_in")
    /\ pc' = NextStep(pc)
    /\ UNCHANGED <<script, nargs, infile, data, orig, outHandle, outfile,
                   stdout, status, err, factor, calls>>

Transform ==
    /\ pc = "transform"
    /\ LET r == Transformed(script, data)
       IN  IF r = Raised
           THEN /\ Crash("transform")
                /\ UNCHANGED <<data, log>>
           ELSE /\ data' = r
                /\ log' = Append(log, "transform")
                /\ pc' = NextStep(pc)
                /\ UNCHANGED <<status, err>>
    /\ UNCHANGED <<script, nargs, infile, orig, inHandle, outHandle, outfile,
                   stdout, factor, calls>>

OpenOutput ==
    /\ pc = "open_out"
    /\ \E writable \in BOOLEAN :
        IF writable
        THEN /\ outHandle' = "open"
             /\ outfile' = Truncated
             /\ log' = Append(log, "open_out")
             /\ pc' = NextStep(pc)
             /\ UNCHANGED <<status, err>>
        ELSE /\ Crash("open_output")
             /\ UNCHANGED <<outHandle, outfile, log>>
    /\ UNCHANGED <<script, nargs, infile, data, orig, inHandle, stdout, factor, calls>>

DumpJson ==
    /\ pc = "dump"
    /\ \E written \in BOOLEAN :
        IF written
        THEN /\ outfile' = Written(Indent(script), data)
             /\ log' = Append(log, "dump")
             /\ pc' = NextStep(pc)
             /\ UNCHANGED <<outHandle, status, err>>
        ELSE /\ outfile' = Partial
             /\ outHandle' = "closed"
             /\ Crash("write")
             /\ UNCHANGED log
    /\ UNCHANGED <<script, nargs, infile, data, orig, inHandle, stdout, factor, calls>>

CloseOutput ==
    /\ pc = "close_out"
    /\ outHandle' = "closed"
    /\ log' = Append(log, "close_out")
    /\ pc' = NextStep(pc)
    /\ UNCHANGED <<script, nargs, infile, data, orig, inHandle, outfile,
                   stdout, status, err, factor, calls>>

PrintDone ==
    /\ pc = "print"
    /\ stdout' = Append(stdout, SuccessMessage(script))
    /\ log' = Append(log, "print")
    /\ pc' = NextStep(pc)
    /\ status' = "exit0"
    /\ UNCHANGED <<script, nargs, infile, data, orig, inHandle, outHandle,
                   outfile, err, factor, calls>>

Next ==
    \/ CheckArgs
    \/ OpenInput
    \/ LoadJson
    \/ CloseInput
    \/ Transform
    \/ OpenOutput
    \/ DumpJson
    \/ CloseOutput
    \/ PrintDone

Spec == Init /\ [][Next]_vars

-----------------------------------------------------------------------------
(* scale_destinations called directly, any number of times, with any factor *)

InitCall ==
    /\ script = "scale_config"
    /\ nargs = 0
    /\ infile = None
    /\ pc = "call"
    /\ data \in ConfigDocs
    /\ orig = data
    /\ inHandle = "never"
    /\ outHandle = "never"
    /\ outfile = Untouched
    /\ stdout = <<>>
    /\ log = <<>>
    /\ status = "running"
    /\ err = "none"
    /\ factor \in Factors
    /\ calls = 0

CallScaleDestinations ==
    /\ pc = "call"
    /\ calls < MaxCalls
    /\ data' = scale_destinations(data, factor)
    /\ calls' = calls + 1
    /\ UNCHANGED <<script, nargs, infile, pc, orig, inHandle, outHandle,
                   outfile, stdout, log, status, err, factor>>

NextCall == CallScaleDestinations

SpecCall == InitCall /\ [][NextCall]_vars

-----------------------------------------------------------------------------
(* Vocabulary of the properties *)

IsNumber(v) == v.t \in {"int", "float"}
IsContainer(v) == v.t \in {"obj", "list"}

\* name has sub as a contiguous substring
HasSubstring(name, sub) ==
    \E i, j \in 1..Len(name) : SubSeq(name, i, j) = sub

IsDestKey(name) == HasSubstring(name, "dest_x") \/ HasSubstring(name, "dest_y")

\* the number o is exactly the product of the numbers v and f
ExactProduct(o, v, f) ==
    /\ IsNumber(o)
    /\ o.n * Pow2(v.e + f.e) = v.n * f.n * Pow2(o.e)

Abs(n) == IF n < 0 THEN 0 - n ELSE n

\* m is the integer nearest to v * 0.5, the even one of the two on a tie
IsNearestEvenOfHalf(m, v) ==
    LET scaleUp == Pow2(v.e + 1)
        twiceDist == 2 * Abs(v.n - m * scaleUp)
    IN  /\ twiceDist <= scaleUp
        /\ twiceDist = scaleUp => m % 2 = 0

\* the transformation step of the run has completed
TransformDone == \E i \in 1..Len(log) : log[i] = "transform"

ChildCount(v) ==
    IF v.t = "obj" THEN Len(v.items) ELSE IF v.t = "list" THEN Len(v.elems) ELSE 0

Child(v, i) == IF v.t = "obj" THEN v.items[i][2] ELSE v.elems[i]

\* same kind of container with the same keys in the same order / same length
SameFrame(a, b) ==
    /\ a.t = b.t
    /\ ChildCount(a) = ChildCount(b)
    /\ a.t = "obj" => \A i \in 1..Len(a.items) : a.items[i][1] = b.items[i][1]

RECURSIVE SameShape(_, _)
SameShape(a, b) ==
    IF IsContainer(a)
    THEN /\ SameFrame(a, b)
         /\ \A i \in 1..ChildCount(a) : SameShape(Child(a, i), Child(b, i))
    ELSE ~IsContainer(b)

\* every number under a dest key of a is multiplied by f in b, at any depth
RECURSIVE DestNumbersScaled(_, _, _)
DestNumbersScaled(a, b, f) ==
    IsContainer(a) =>
        /\ SameFrame(a, b)
        /\ \A i \in 1..ChildCount(a) :
               IF a.t = "obj" /\ IsDestKey(a.items[i][1]) /\ IsNumber(Child(a, i))
               THEN ExactProduct(Child(b, i), Child(a, i), f)
               ELSE DestNumbersScaled(Child(a, i), Child(b, i), f)

\* a dest key whose value is no number keeps a string, boolean or null value,
\* and an object or list value is walked with the same rules
RECURSIVE DestNonNumbersKept(_, _, _)
DestNonNumbersKept(a, b, f) ==
    IsContainer(a) =>
        /\ SameFrame(a, b)
        /\ \A i \in 1..ChildCount(a) :
               LET v == Child(a, i)
               IN  /\ (a.t = "obj" /\ IsDestKey(a.items[i][1]) /\ v.t \in {"str", "bool", "null"})
                         => Child(b, i) = v
                   /\ (a.t = "obj" /\ IsDestKey(a.items[i][1]) /\ IsContainer(v))
                         => DestNumbersScaled(v, Child(b, i), f)
                   /\ DestNonNumbersKept(v, Child(b, i), f)

\* numbers under dest keys are multiplied by f, every other value is as in a
RECURSIVE OnlyDestNumbersScaled(_, _, _)
OnlyDestNumbersScaled(a, b, f) ==
    IF IsContainer(a)
    THEN /\ SameFrame(a, b)
         /\ \A i \in 1..ChildCount(a) :
               IF a.t = "obj" /\ IsDestKey(a.items[i][1]) /\ IsNumber(Child(a, i))
               THEN ExactProduct(Child(b, i), Child(a, i), f)
               ELSE OnlyDestNumbersScaled(Child(a, i), Child(b, i), f)
    ELSE b = a

-----------------------------------------------------------------------------
(* Generic Scaler *)

\* C1: after one call scale_destinations(D, f), every number V under a key
\* whose name contains dest_x or dest_y, at any depth inside objects and
\* lists, is exactly V * f.
C1_DestNumbersScaled ==
    (pc = "call" /\ calls = 1) => DestNumbersScaled(orig, data, factor)

C1_Witness ==
    /\ pc = "call" /\ calls = 1
    /\ factor = JFloat(3, 1)
    /\ orig = JObj(<< <<"dest", JList(<< JObj(<< <<"my_dest_y2", JFloat(5, 1)>> >>) >>)>> >>)
    /\ data = JObj(<< <<"dest", JList(<< JObj(<< <<"my_dest_y2", JFloat(15, 2)>> >>) >>)>> >>)

\* C2: after one call, a value under a dest key that is no number is not
\* scaled: a string, boolean or null is identical in the result, an object or
\* list is walked with the same rule.
C2_DestNonNumbersKept ==
    (pc = "call" /\ calls = 1) => DestNonNumbersKept(orig, data, factor)

\* C8: after two calls with factor 0.5, every number under a dest key is 0.25
\* times the original and every other value is as in the original.
C8_TwiceIsQuarter ==
    (pc = "call" /\ calls = 2 /\ factor = JFloat(1, 1))
        => OnlyDestNumbersScaled(orig, data, JFloat(1, 2))

-----------------------------------------------------------------------------
(* Frame Scaler *)

SubNames == {"frame", "spriteSourceSize", "sourceSize"}
FieldNames == {"x", "y", "w", "h"}

IsFramesRun == script = "scale_frames" /\ TransformDone

\* the indices of the frame entries of document a that are objects
ObjectEntries(a) ==
    IF a.t = "obj" /\ HasKey(a, "frames") /\ Get(a, "frames").t = "obj"
    THEN { i \in 1..Len(Get(a, "frames").items) : Get(a, "frames").items[i][2].t = "obj" }
    ELSE {}

Entry(a, i) == Get(a, "frames").items[i][2]

\* the sub-objects of frame entry e that the scaler looks into
SubsOf(e) == { k \in SubNames : HasKey(e, k) /\ Get(e, k).t = "obj" }

\* every number v in a field x, y, w, h of such a sub-object of a is, in b,
\* the integer nearest to v * 0.5 (ties to even)
FieldsHalved(a, b) ==
    \A i \in ObjectEntries(a) : \A k \in SubsOf(Entry(a, i)) :
        \A f \in FieldNames :
            LET sub == Get(Entry(a, i), k)
            IN  (HasKey(sub, f) /\ IsNumber(Get(sub, f))) =>
                    LET o == Get(Get(Entry(b, i), k), f)
                    IN  /\ o.t = "int" /\ o.e = 0
                        /\ IsNearestEvenOfHalf(o.n, Get(sub, f))

\* every field x of value 11 of such a sub-object of a has value m in b
XElevenBecomes(a, b, m) ==
    \A i \in ObjectEntries(a) : \A k \in SubsOf(Entry(a, i)) :
        LET sub == Get(Entry(a, i), k)
        IN  (HasKey(sub, "x") /\ Get(sub, "x") = JInt(11)) =>
                Get(Get(Entry(b, i), k), "x") = JInt(m)

\* b is a but for the fields x, y, w, h of those sub-objects
OthersUnchanged(a, b) ==
    /\ SameFrame(a, b)
    /\ \A t \in 1..ChildCount(a) :
         IF a.t = "obj" /\ a.items[t][1] = "frames" /\ Child(a, t).t = "obj"
         THEN /\ SameFrame(Child(a, t), Child(b, t))
              /\ \A i \in 1..ChildCount(Child(a, t)) :
                   LET e == Child(Child(a, t), i)
                       e2 == Child(Child(b, t), i)
                   IN  IF e.t # "obj" THEN e2 = e
                       ELSE /\ SameFrame(e, e2)
                            /\ \A j \in 1..Len(e.items) :
                                 LET s1 == e.items[j][2]
                                     s2 == e2.items[j][2]
                                 IN  IF e.items[j][1] \in SubNames /\ s1.t = "obj"
                                     THEN /\ SameFrame(s1, s2)
                                          /\ \A m \in 1..Len(s1.items) :
                                               s1.items[m][1] \notin FieldNames
                                                   => s2.items[m] = s1.items[m]
                                     ELSE s2 = s1
         ELSE Child(b, t) = Child(a, t)

\* C3: once the Frame Scaler has transformed the document, every number v in
\* a field x, y, w or h of a frame / spriteSourceSize / sourceSize sub-object
\* of an entry of frames is the integer nearest to v * 0.5, ties to even; the
\* same holds of the document written to the output file.
C3_FieldsHalved ==
    IsFramesRun =>
        /\ FieldsHalved(orig, data)
        /\ outfile.t = "written" => FieldsHalved(orig, outfile.doc)

C3_Witness ==
    /\ IsFramesRun /\ pc = "done"
    /\ orig = JObj(<< <<"frames", JObj(<< <<"a.png", FullFrame>> >>)>> >>)
    /\ outfile.doc = JObj(<< <<"frames", JObj(<< <<"a.png",
         JObj(<< <<"frame", Rect(JInt(5), JInt(10), JInt(15), JInt(20))>>,
                 <<"rotated", JBool(FALSE)>>,
                 <<"x", JInt(11)>>,
                 <<"spriteSourceSize", Rect(JInt(0), JInt(0), JInt(6), JInt(6))>>,
                 <<"sourceSize", JObj(<< <<"w", JInt(16)>>, <<"h", JInt(20)>> >>)>> >>)
         >> >>)>> >>)

\* C4 as stated: a sub-object field x of input value 11 has output value 5.
C4_ElevenBecomesFive ==
    IsFramesRun => XElevenBecomes(orig, data, 5)

\* C4 as amended: a sub-object field x of input value 11 has output value 6
\* (11 * 0.5 = 5.5 is a tie, and the even neighbour is 6).
C4_ElevenBecomesSix ==
    IsFramesRun => XElevenBecomes(orig, data, 6)

C4_Witness ==
    /\ IsFramesRun /\ pc = "done"
    /\ orig = JObj(<< <<"frames", JObj(<< <<"a.png",
                 JObj(<< <<"frame", JObj(<< <<"x", JInt(11)>> >>)>> >>)>> >>)>> >>)
    /\ outfile = Written(4, JObj(<< <<"frames", JObj(<< <<"a.png",
                 JObj(<< <<"frame", JObj(<< <<"x", JInt(6)>> >>)>> >>)>> >>)>> >>))

\* C5: for both scripts the transformed document, and the document written,
\* has the shape of the input: same keys in the same order in every object,
\* same length of every list, same nesting.
C5_SameShape ==
    TransformDone =>
        /\ SameShape(orig, data)
        /\ outfile.t = "written" => SameShape(orig, outfile.doc)

C5_Witness ==
    /\ IsFramesRun /\ pc = "done"
    /\ orig = JObj(<< <<"frames", JObj(<< <<"a.png", NoSpriteFrame>> >>)>> >>)
    /\ outfile.doc # orig
    /\ ~HasKey(Entry(outfile.doc, 1), "spriteSourceSize")
    /\ ~HasKey(Get(Entry(outfile.doc, 1), "frame"), "y")

\* C6: the Frame Scaler changes nothing but the fields x, y, w, h of the
\* frame / spriteSourceSize / sourceSize sub-objects of the entries of frames.
C6_OthersUnchanged ==
    IsFramesRun =>
        /\ OthersUnchanged(orig, data)
        /\ outfile.t = "written" => OthersUnchanged(orig, outfile.doc)

C6_Witness ==
    /\ IsFramesRun /\ pc = "done"
    /\ orig = JObj(<< <<"size", SizeObj>>,
                      <<"frames", JObj(<< <<"a.png", NoSpriteFrame>>, <<"b.png", FullFrame>> >>)>>,
                      <<"x", JInt(11)>> >>)
    /\ outfile.doc # orig
    /\ Get(outfile.doc, "size") = SizeObj
    /\ Get(outfile.doc, "x") = JInt(11)
    /\ Get(Entry(outfile.doc, 2), "x") = JInt(11)
    /\ Get(Get(Entry(outfile.doc, 1), "frame"), "pivot") = JInt(11)

\* C9: when the loaded document is an object without a top-level frames key,
\* the Frame Scaler's transformation does not fail and changes nothing, and
\* the document written equals the input.
C9_NoFramesNoChange ==
    (script = "scale_frames" /\ orig.t = "obj" /\ ~HasKey(orig, "frames")) =>
        /\ err # "transform"
        /\ data = orig
        /\ outfile.t = "written" => outfile = Written(4, orig)
        /\ pc = "done" => outfile.t = "written"

C9_Witness ==
    /\ script = "scale_frames" /\ pc = "done"
    /\ orig = JObj(<< <<"size", SizeObj>>, <<"frame", FullFrame>>,
                      <<"sprites", JObj(<< <<"a.png", FullFrame>> >>)>> >>)
    /\ outfile = Written(4, orig)

-----------------------------------------------------------------------------
(* Both scripts: command line and order of the steps *)

\* C7: a run whose number of positional arguments is not two prints the usage
\* message, exits with status 1 and opens, reads or writes no file.
C7_UsageError ==
    (nargs # 2 /\ pc # "start") =>
        /\ pc = "exited" /\ status = "exit1"
        /\ stdout = <<Usage(script)>>
        /\ inHandle = "never" /\ outHandle = "never"
        /\ data = None /\ outfile = Untouched /\ log = <<>>

C7_Witness ==
    /\ nargs = 3 /\ script = "scale_frames" /\ pc = "exited"
    /\ stdout = <<"Usage: python scale_frames.py input.json output.json">>

ProgramOrder ==
    <<"open_in", "load", "close_in", "transform", "open_out", "dump", "close_out", "print">>

SuccessPrinted == \E i \in 1..Len(stdout) : stdout[i] = SuccessMessage(script)

\* C10: the steps of a run happen in the order load, transform, save: the
\* input handle is released before the transformation, the output file is
\* opened only after the transformation has completed, the handles are never
\* open together, the success message follows the release of the output
\* handle, and a failure on the input or in the transformation leaves the
\* output file unopened and untouched.
C10_LoadTransformSave ==
    /\ Len(log) <= Len(ProgramOrder)
    /\ \A i \in 1..Len(log) : log[i] = ProgramOrder[i]
    /\ ~(inHandle = "open" /\ outHandle = "open")
    /\ (pc = "transform" \/ TransformDone) => inHandle = "closed"
    /\ (outHandle # "never" \/ outfile # Untouched) => TransformDone
    /\ SuccessPrinted => (outHandle = "closed" /\ outfile.t = "written")
    /\ err \in {"open_input", "parse", "transform"} =>
           (outHandle = "never" /\ outfile = Untouched)

C10_Witness ==
    /\ pc = "done" /\ log = ProgramOrder /\ SuccessPrinted
    /\ inHandle = "closed" /\ outHandle = "closed"

====
